---- MODULE Spec2Model ----
(***************************************************************************)
(* Crypto_DataAnalysis: the price-history fetch (get_bitcoin_data), the    *)
(* series preparation of the three chart scripts, and the retirement       *)
(* verification (verify_lifetime_retirement, its 500k variant and          *)
(* generate_retirement_table_html).                                        *)
(*                                                                         *)
(* The parts run as separate programs, so each has its own specification   *)
(* over the shared variable list:                                          *)
(*   Spec       - get_bitcoin_data's paging loop                           *)
(*   SpecPrep   - the preparation steps, the fit and the written outputs   *)
(*   SpecVerify - the verification loop over the reference table           *)
(*   SpecCell   - one currency cell of the forecast table, written and     *)
(*                read back                                                *)
(*   SpecMain   - a chart script's __main__: the fetch, then the chart     *)
(*                function on what the fetch returned                      *)
(***************************************************************************)
EXTENDS Integers, Sequences, FiniteSets, TLC

VARIABLES
    \* ---- get_bitcoin_data ----
    start_timestamp,    \* int(strptime(start_date).timestamp())
    end_timestamp,      \* int(strptime(end_date).timestamp())
    all_data,           \* the accumulated bars (their 'time' fields)
    current_timestamp,  \* the toTs cursor of the next request
    new_data,           \* the page of the last successful response
    requests,           \* number of requests.get calls issued
    response,           \* how the last request ended
    fpc,                \* "loop" while in the while-loop, "done" after return
    ret,                \* what get_bitcoin_data returned
    fetch_printed,      \* the message the fetch function printed
    \* ---- plot_bitcoin_price / create_interactive_*_chart ----
    script,             \* which chart script runs
    data,               \* the raw rows passed in: [time, close]
    df,                 \* the data frame as the steps transform it
    ppc,                \* position in the chart function
    fit_input,          \* the rows X, y handed to QuantReg(...).fit
    files,              \* the output files written
    printed,            \* the message printed on an early return
    extended_dates,     \* forecast coordinate -> the calendar day shown for it
    tick_text,          \* axis tick value -> the calendar day of its label
    \* ---- the chart scripts' __main__ blocks ----
    mpc,                \* position in the __main__ block
    \* ---- the forecast table's currency cells ----
    price,              \* the number formatted, in tenths of a cent
    cell,               \* the cell's text, a sequence of characters
    parsed,             \* the number read back: units / 10^decimals
    cpc,                \* position: "format", "load", "done"
    \* ---- verify_lifetime_retirement(_500k) / generate_retirement_table_html ----
    verifier,           \* which verification runs
    table,              \* the forecast table read: rows [year, month, p5]
    csv_exists,         \* whether bitcoin_price_predictions.csv can be read
    price_map,          \* Year -> 5th-percentile price
    current_age,        \* the outer loop's key
    retirement_year,    \* the inner loop's key
    years_in_retirement,
    loop_i,             \* the withdrawal loop's index i
    total_btc_needed,
    calculation_complete,
    output,             \* the rows printed (or appended to the html) so far
    vpc                 \* position in the verification

fetchVars == <<start_timestamp, end_timestamp, all_data, current_timestamp,
               new_data, requests, response, fpc, ret, fetch_printed>>

prepVars == <<script, data, df, ppc, fit_input, files, printed,
              extended_dates, tick_text>>

mainVars == <<mpc>>

cellVars == <<price, cell, parsed, cpc>>

verVars == <<verifier, table, csv_exists, price_map, current_age,
             retirement_year, years_in_retirement, loop_i, total_btc_needed,
             calculation_complete, output, vpc>>

vars == <<fetchVars, prepVars, verVars, mainVars, cellVars>>

\* what an action of one program leaves alone: the other programs' variables
nonFetchVars == <<prepVars, verVars, mainVars, cellVars>>
nonPrepVars == <<fetchVars, verVars, mainVars, cellVars>>
nonVerVars == <<fetchVars, prepVars, mainVars, cellVars>>

----------------------------------------------------------------------------
(* Bounds *)

\* timestamps are 0..MaxTs (one unit = one daily bar)
MaxTs == 4
\* largest number of bars in one page (the API's limit, scaled down)
MaxPage == 3
\* cap on the number of requests of one run (a page that does not move the
\* cursor would otherwise let all_data grow without bound)
MaxRequests == 3
\* a timestamp is a day number times TicksPerDay plus the time within the day
TicksPerDay == 2
\* prices of the raw rows are 0..MaxPrice (0 stands for a non-positive price)
MaxPrice == 2
\* largest number of raw rows handed to a chart function
MaxRows == 2
\* amounts of bitcoin are fixed-point numbers, AmountScale units to 1 BTC
\* (the code computes in floating point)
AmountScale == 1000

----------------------------------------------------------------------------
(* Helpers on sequences *)

Min(S) == CHOOSE x \in S : \A y \in S : x <= y

RECURSIVE SortedSeq(_)
\* the ascending sequence of the elements of a finite set of integers
SortedSeq(S) == IF S = {} THEN <<>>
                ELSE LET m == Min(S) IN <<m>> \o SortedSeq(S \ {m})

Ascending(s) == \A i \in 1..(Len(s) - 1) : s[i] <= s[i + 1]

----------------------------------------------------------------------------
(* get_bitcoin_data *)

\* The pages the provider may answer with for toTs = cursor: bars in ascending
\* order of time, none later than the cursor, at most MaxPage of them.
Pages(cursor) ==
    {SortedSeq(S) : S \in {T \in SUBSET (0..cursor) :
                              T # {} /\ Cardinality(T) <= MaxPage}}

NoneResult == [kind |-> "None", data |-> <<>>]
ListResult(d) == [kind |-> "list", data |-> d]
Pending == [kind |-> "pending", data |-> <<>>]

Init ==
    /\ verifier = "none" /\ table = <<>> /\ csv_exists = FALSE
    /\ price_map = <<>> /\ current_age = 0 /\ retirement_year = 0
    /\ years_in_retirement = 0 /\ loop_i = 0 /\ total_btc_needed = 0
    /\ calculation_complete = TRUE /\ output = <<>> /\ vpc = "idle"
    /\ script = "none" /\ data = <<>> /\ df = <<>> /\ ppc = "idle"
    /\ fit_input = <<>> /\ files = {} /\ printed = "none"
    /\ extended_dates = <<>> /\ tick_text = <<>>
    /\ mpc = "idle" /\ fetch_printed = "none"
    /\ price = 0 /\ cell = <<>> /\ parsed = 0 /\ cpc = "idle"
    /\ start_timestamp \in 0..MaxTs
    /\ end_timestamp \in start_timestamp..MaxTs
    /\ all_data = <<>>
    /\ current_timestamp = end_timestamp
    /\ new_data = <<>>
    /\ requests = 0
    /\ response = "none"
    /\ fpc = "loop"
    /\ ret = Pending

FailureMutant(acc) == ListResult(acc)

\* lines 36-38 and 40-42: print the error and return None
Failure(acc) == NoneResult

\* requests.get or raise_for_status raises RequestException
TransportError ==
    /\ fpc = "loop" /\ requests < MaxRequests
    /\ requests' = requests + 1
    /\ response' = "transport_error"
    /\ fetch_printed' = "Error fetching data"
    /\ ret' = Failure(all_data)
    /\ fpc' = "done"
    /\ UNCHANGED <<start_timestamp, end_timestamp, all_data,
                   current_timestamp, new_data, nonFetchVars>>

\* data['Response'] # 'Success' (or no Data.Data in the payload)
ErrorStatus ==
    /\ fpc = "loop" /\ requests < MaxRequests
    /\ requests' = requests + 1
    /\ response' = "error_status"
    /\ fetch_printed' = "Error in API response"
    /\ ret' = Failure(all_data)
    /\ fpc' = "done"
    /\ UNCHANGED <<start_timestamp, end_timestamp, all_data,
                   current_timestamp, new_data, nonFetchVars>>

\* a successful response with an empty page: break, return all_data
EmptyPage ==
    /\ fpc = "loop" /\ requests < MaxRequests
    /\ requests' = requests + 1
    /\ response' = "empty"
    /\ new_data' = <<>>
    /\ ret' = ListResult(all_data)
    /\ fpc' = "done"
    /\ UNCHANGED <<start_timestamp, end_timestamp, all_data,
                   current_timestamp, fetch_printed, nonFetchVars>>

\* line 31: all_data.extend(new_data)
Extend(acc, page) == acc \o page

StopMutant(oldest, start) == TRUE

NextCursorMutant(cursor, oldest) == cursor

\* line 32: current_timestamp = oldest_timestamp_in_chunk
NextCursor(cursor, oldest) == oldest

\* line 34: if oldest_timestamp_in_chunk <= start_timestamp: break
Stop(oldest, start) == oldest <= start

\* a successful response with a non-empty page
Page ==
    /\ fpc = "loop" /\ requests < MaxRequests
    /\ \E page \in Pages(current_timestamp) :
         LET oldest_timestamp_in_chunk == page[1]
             acc == Extend(all_data, page)
         IN /\ requests' = requests + 1
            /\ response' = "page"
            /\ new_data' = page
            /\ all_data' = acc
            /\ current_timestamp' =
                   NextCursor(current_timestamp, oldest_timestamp_in_chunk)
            /\ IF Stop(oldest_timestamp_in_chunk, start_timestamp)
               THEN /\ ret' = ListResult(acc)
                    /\ fpc' = "done"
               ELSE UNCHANGED <<ret, fpc>>
    /\ UNCHANGED <<start_timestamp, end_timestamp, fetch_printed,
                   nonFetchVars>>


----------------------------------------------------------------------------
(* Series preparation and fit: plot_bitcoin_price,                         *)
(* create_interactive_bitcoin_chart, create_interactive_gold_chart         *)

Scripts == {"plot_bitcoin_price", "interactive_bitcoin_chart",
            "interactive_gold_chart"}

IsGold(sc) == sc = "interactive_gold_chart"

\* df = df[df['days_since_start'] >= 365]
MinDays == 365

\* start_datetime, midnight of the start date, as a timestamp
StartDay == 1
start_datetime == StartDay * TicksPerDay

\* The calendar days of the raw samples: the day before the start date, the
\* start date, the next day, and the days around the 365-day floor.
RawDays == {StartDay - 1, StartDay, StartDay + 1,
            StartDay + MinDays - 2, StartDay + MinDays - 1, StartDay + MinDays}

\* The day on which samples at several times of day are drawn.
IntradayDay == StartDay + MinDays - 1

RawTimes == {d * TicksPerDay : d \in RawDays}
            \cup {IntradayDay * TicksPerDay + k : k \in 1..(TicksPerDay - 1)}

RawRows == [time : RawTimes, close : 0..MaxPrice]

RECURSIVE SeqsUpTo(_, _)
\* the sequences over S of length <= n
SeqsUpTo(S, n) ==
    IF n = 0 THEN {<<>>}
    ELSE LET shorter == SeqsUpTo(S, n - 1)
         IN shorter \cup {Append(q, x) : q \in {r \in shorter : Len(r) = n - 1},
                                         x \in S}

InitPrep ==
    /\ verifier = "none" /\ table = <<>> /\ csv_exists = FALSE
    /\ price_map = <<>> /\ current_age = 0 /\ retirement_year = 0
    /\ years_in_retirement = 0 /\ loop_i = 0 /\ total_btc_needed = 0
    /\ calculation_complete = TRUE /\ output = <<>> /\ vpc = "idle"
    /\ start_timestamp = 0 /\ end_timestamp = 0 /\ all_data = <<>>
    /\ current_timestamp = 0 /\ new_data = <<>> /\ requests = 0
    /\ response = "none" /\ fpc = "idle" /\ ret = Pending
    /\ script \in Scripts
    /\ data \in SeqsUpTo(RawRows, MaxRows)
    /\ df = <<>>
    /\ ppc = "start"
    /\ fit_input = <<>>
    /\ files = {}
    /\ printed = "none"
    /\ extended_dates = <<>>
    /\ tick_text = <<>>
    /\ mpc = "idle" /\ fetch_printed = "none"
    /\ price = 0 /\ cell = <<>> /\ parsed = 0 /\ cpc = "idle"

\* df[mask]: the rows satisfying Keep, in order
SelectRows(s, Keep(_)) == SelectSeq(s, Keep)

\* sort_values('time') / sort_index(): pandas' default kind is quicksort,
\* which is not stable, so rows with equal keys may come out in any order.
RECURSIVE SortedFrom(_, _)
\* the orders in which the rows of s at the positions I may come out: any
\* row with the least key first, then the others likewise
SortedFrom(s, I) ==
    IF I = {} THEN {<<>>}
    ELSE LET least == Min({s[i].time : i \in I})
         IN UNION {{<<s[i]>> \o rest : rest \in SortedFrom(s, I \ {i})} :
                      i \in {j \in I : s[j].time = least}}

SortOutcomes(s) == SortedFrom(s, 1..Len(s))

\* Bitcoin: drop_duplicates(subset=['time']), the key is the timestamp.
\* Gold: drop_duplicates() with no subset, the key is the whole row (its
\* columns, among them 'date', the copy of the index).
DedupKey(sc, r) == IF IsGold(sc) THEN <<r.time, r.close>> ELSE <<r.time>>

RECURSIVE DropDuplicates(_, _, _)
\* drop_duplicates(keep='first'): a row is dropped when an earlier row has
\* the same key
DropDuplicates(sc, s, seen) ==
    IF s = <<>> THEN <<>>
    ELSE LET k == DedupKey(sc, Head(s))
         IN IF k \in seen THEN DropDuplicates(sc, Tail(s), seen)
            ELSE <<Head(s)>> \o DropDuplicates(sc, Tail(s), seen \cup {k})

\* (t - start_datetime).days, for t >= start_datetime
WholeDays(t) == (t - start_datetime) \div TicksPerDay

DaysSinceStartMutant(sc, t) == WholeDays(t) + 1

\* Bitcoin: (df['time'] - start_datetime).dt.days + 1
\* Gold:    (df.index - start_datetime).days
DaysSinceStart(sc, t) == IF IsGold(sc) THEN WholeDays(t) ELSE WholeDays(t) + 1

\* Bitcoin: df['days_since_start'] >= 365;  Gold: df['days_since_start'] > 0
AboveFloor(sc, d) == IF IsGold(sc) THEN d > 0 ELSE d >= MinDays

\* if not data / if data is None or data.empty: print and return
NoData ==
    /\ ppc = "start"
    /\ data = <<>>
    /\ printed' = "No data to plot."
    /\ ppc' = "returned"
    /\ UNCHANGED <<script, data, df, fit_input, files, 
                   extended_dates, tick_text, nonPrepVars>>

\* df = DataFrame(data); df = df[df['time'] >= start_datetime]
FilterStart ==
    /\ ppc = "start"
    /\ data # <<>>
    /\ df' = SelectRows(data, LAMBDA r : r.time >= start_datetime)
    /\ ppc' = "sort"
    /\ UNCHANGED <<script, data, fit_input, files, printed, 
                   extended_dates, tick_text, nonPrepVars>>

\* df = df.sort_values('time').drop_duplicates(subset=['time'], keep='first')
\* df = df.sort_index().drop_duplicates(keep='first')
SortAndDropDuplicates ==
    /\ ppc = "sort"
    /\ \E sorted \in SortOutcomes(df) :
         df' = DropDuplicates(script, sorted, {})
    /\ ppc' = "days"
    /\ UNCHANGED <<script, data, fit_input, files, printed, 
                   extended_dates, tick_text, nonPrepVars>>

\* df['days_since_start'] = ...
AssignDays ==
    /\ ppc = "days"
    /\ df' = [i \in 1..Len(df) |->
                [time |-> df[i].time, close |-> df[i].close,
                 days_since_start |-> DaysSinceStart(script, df[i].time)]]
    /\ ppc' = "floor"
    /\ UNCHANGED <<script, data, fit_input, files, printed, 
                   extended_dates, tick_text, nonPrepVars>>

\* df = df[df['days_since_start'] >= 365] / df = df[df['days_since_start'] > 0]
FilterFloor ==
    /\ ppc = "floor"
    /\ df' = SelectRows(df, LAMBDA r : AboveFloor(script, r.days_since_start))
    /\ ppc' = IF IsGold(script) THEN "len" ELSE "fit"
    /\ UNCHANGED <<script, data, fit_input, files, printed, 
                   extended_dates, tick_text, nonPrepVars>>

\* gold only: if len(df) < 2: print and return
NotEnoughData ==
    /\ ppc = "len"
    /\ Len(df) < 2
    /\ printed' = "Not enough data points for regression analysis."
    /\ ppc' = "returned"
    /\ UNCHANGED <<script, data, df, fit_input, files, 
                   extended_dates, tick_text, nonPrepVars>>

\* gold only: df = df[df['price'] > 0]
FilterPrice ==
    /\ ppc = "len"
    /\ Len(df) >= 2
    /\ df' = SelectRows(df, LAMBDA r : r.close > 0)
    /\ ppc' = "fit"
    /\ UNCHANGED <<script, data, fit_input, files, printed, 
                   extended_dates, tick_text, nonPrepVars>>

\* a series on which log and the fit are defined
WellPosed(rows) ==
    /\ Len(rows) >= 2
    /\ \A i \in 1..Len(rows) : rows[i].close > 0 /\ rows[i].days_since_start > 0

\* X = add_constant(log(days_since_start)); y = log(price);
\* QuantReg(y, X).fit(q=...) for each quantile.  On a series that is not
\* well posed statsmodels may raise or may return a degenerate fit.
Fit ==
    /\ ppc = "fit"
    /\ fit_input' = df
    /\ \/ ppc' = "fitted"
       \/ ~WellPosed(df) /\ ppc' = "raised"
    /\ UNCHANGED <<script, data, df, files, printed, 
                   extended_dates, tick_text, nonPrepVars>>

OutputFiles(sc) ==
    CASE sc = "plot_bitcoin_price" ->
           {"bitcoin_price_predictions.csv", "bitcoin_price_chart.png"}
      [] sc = "interactive_bitcoin_chart" ->
           {"bitcoin_price_predictions.csv", "interactive_bitcoin_chart.html"}
      [] sc = "interactive_gold_chart" ->
           {"gold_price_predictions.csv", "interactive_gold_chart.html"}

\* datetime(2120, 1, 1) (gold: datetime(2030, 1, 1)) as a calendar day: the
\* forecast ends HorizonDays days after the first day on the 365-day floor
HorizonDays == 2
horizon == StartDay + MinDays - 1 + HorizonDays

\* Bitcoin: future_days = (datetime(2120, 1, 1) - start_datetime).days + 1
\* Gold:    future_days = (datetime(2030, 1, 1) - start_datetime).days
future_days(sc) ==
    IF IsGold(sc) THEN horizon - StartDay ELSE (horizon - StartDay) + 1

\* np.arange(df['days_since_start'].min(), future_days)
extended_days(sc, rows) ==
    LET first == Min({rows[i].days_since_start : i \in 1..Len(rows)})
    IN first..(future_days(sc) - 1)

\* start_datetime + timedelta(days=int(d)): the calendar day shown for the
\* day-coordinate d (forecast hover date, tick label, days_to_date_formatter)
days_to_date(d) == StartDay + d

\* tick_vals = [365, 730, 1095, ...]: the first MaxTicks of them
MaxTicks == 2
tick_vals == {k * MinDays : k \in 1..MaxTicks}

\* np.arange(df['days_since_start'].min(), future_days) on an empty frame:
\* min() is NaN and arange raises ValueError
ExtendRaises ==
    /\ ppc = "fitted"
    /\ df = <<>>
    /\ ppc' = "raised extending"
    /\ UNCHANGED <<script, data, df, fit_input, files, printed,
                   extended_dates, tick_text, nonPrepVars>>

\* the forecast is extended, its dates and the tick labels are computed, the
\* forecast table and the chart are written.  plot_bitcoin_price keeps no
\* list of forecast dates: it labels the ticks with days_to_date_formatter.
WriteOutputs ==
    /\ ppc = "fitted"
    /\ df # <<>>
    /\ extended_dates' =
          IF script = "plot_bitcoin_price" THEN <<>>
          ELSE [d \in extended_days(script, df) |-> days_to_date(d)]
    /\ tick_text' = [val \in tick_vals |-> days_to_date(val)]
    /\ files' = OutputFiles(script)
    /\ ppc' = "returned"
    /\ UNCHANGED <<script, data, df, fit_input, printed, nonPrepVars>>

NextPrep ==
    \/ NoData \/ FilterStart \/ SortAndDropDuplicates \/ AssignDays
    \/ FilterFloor \/ NotEnoughData \/ FilterPrice \/ Fit \/ ExtendRaises
    \/ WriteOutputs

SpecPrep == InitPrep /\ [][NextPrep]_vars

----------------------------------------------------------------------------
(* Retirement verification: verify_lifetime_retirement,                    *)
(* verify_lifetime_retirement_500k, generate_retirement_table_html         *)

Verifiers == {"verify_lifetime_retirement", "verify_lifetime_retirement_500k",
              "generate_retirement_table_html"}

\* INFLATION_RATE = 0.07, in percent
INFLATION_PERCENT == 7
LIFESPAN == 100
CURRENT_YEAR == 2025

\* INITIAL_WITHDRAWAL, in thousands of dollars
InitialWithdrawal(v) ==
    IF v = "verify_lifetime_retirement_500k" THEN 500 ELSE 100

\* the tolerance of the comparison: 0.5 BTC, 0.25 BTC in the 500k script
Tolerance(v) ==
    IF v = "verify_lifetime_retirement_500k" THEN AmountScale \div 4
    ELSE AmountScale \div 2

\* the keys of image_data, in insertion order
Ages == <<5, 15, 25, 35, 45, 55, 65, 75>>
RetirementYears ==
    <<2025, 2030, 2035, 2040, 2045, 2050, 2055, 2060, 2065, 2070, 2075>>

\* image_data of the 100k scripts, in hundredths of a bitcoin
Image100k ==
    << <<1096, 477, 277, 190, 144, 116, 97, 83, 72, 63, 56>>,
       <<1083, 464, 264, 177, 131, 103, 84, 70, 59, 50, 43>>,
       <<1071, 452, 252, 165, 119, 91, 72, 58, 47, 38, 31>>,
       <<1060, 441, 241, 154, 107, 79, 60, 47, 36, 27, 19>>,
       <<1047, 428, 228, 141, 95, 67, 48, 34, 23, 15, 7>>,
       <<1033, 414, 214, 127, 81, 53, 34, 20, 9, 0, 0>>,
       <<1013, 394, 194, 107, 61, 33, 14, 0, 0, 0, 0>>,
       <<980, 361, 161, 74, 28, 0, 0, 0, 0, 0, 0>> >>

\* image_data of the 500k script, in hundredths of a bitcoin
Image500k ==
    << <<5481, 2385, 1385, 950, 720, 579, 485, 415, 361, 317, 278>>,
       <<5416, 2320, 1320, 885, 655, 515, 420, 351, 296, 252, 213>>,
       <<5357, 2261, 1261, 826, 595, 455, 361, 291, 237, 192, 154>>,
       <<5299, 2203, 1203, 768, 537, 397, 302, 233, 179, 134, 96>>,
       <<5237, 2141, 1141, 706, 476, 336, 241, 171, 117, 73, 34>>,
       <<5165, 2068, 1069, 634, 403, 263, 168, 99, 45, 0, 0>>,
       <<5066, 1970, 970, 535, 304, 164, 69, 0, 0, 0, 0>>,
       <<4902, 1806, 806, 371, 140, 0, 0, 0, 0, 0, 0>> >>

IndexOf(seq, x) == CHOOSE k \in 1..Len(seq) : seq[k] = x

\* image_data[current_age][retirement_year]
ImageData(v, age, year) ==
    LET t == IF v = "verify_lifetime_retirement_500k" THEN Image500k
             ELSE Image100k
    IN t[IndexOf(Ages, age)][IndexOf(RetirementYears, year)]

\* the forecast table's date grid: date_range('2024-01-01', '2120-01-01', '6MS')
GridFirstYear == 2024
GridLastYear == 2120

\* The years a table read by the verifier may lack (a table of another run
\* or a truncated file); {} is the table the builder writes.
Gaps == {{}, {2070}, 2060..2099, 2060..GridLastYear, GridFirstYear..GridLastYear}

\* two price curves for the '5th' column, in thousands of dollars: a flat one
\* and one rising from row to row
PriceCurves == {"flat", "rising"}

Price5th(curve, year, month) ==
    IF curve = "flat" THEN 100
    ELSE 50 + 20 * (year - GridFirstYear) + (IF month = 7 THEN 10 ELSE 0)

RECURSIVE GridRows(_, _)
\* the rows of the years ys (ascending), two a year: January 1st and July 1st;
\* the grid ends on January 1st of its last year
GridRows(ys, curve) ==
    IF ys = <<>> THEN <<>>
    ELSE LET y == Head(ys)
             jan == [year |-> y, month |-> 1, p5 |-> Price5th(curve, y, 1)]
             jul == [year |-> y, month |-> 7, p5 |-> Price5th(curve, y, 7)]
         IN (IF y = GridLastYear THEN <<jan>> ELSE <<jan, jul>>)
            \o GridRows(Tail(ys), curve)

Tables == {GridRows(SortedSeq((GridFirstYear..GridLastYear) \ g), c) :
              g \in Gaps, c \in PriceCurves}

InitVerify ==
    /\ start_timestamp = 0 /\ end_timestamp = 0 /\ all_data = <<>>
    /\ current_timestamp = 0 /\ new_data = <<>> /\ requests = 0
    /\ response = "none" /\ fpc = "idle" /\ ret = Pending
    /\ script = "none" /\ data = <<>> /\ df = <<>> /\ ppc = "idle"
    /\ fit_input = <<>> /\ files = {} /\ printed = "none"
    /\ extended_dates = <<>> /\ tick_text = <<>>
    /\ mpc = "idle" /\ fetch_printed = "none"
    /\ price = 0 /\ cell = <<>> /\ parsed = 0 /\ cpc = "idle"
    /\ verifier \in Verifiers
    /\ table \in Tables
    \* generate_retirement_table_html is handed the table in memory
    /\ csv_exists \in (IF verifier = "generate_retirement_table_html"
                       THEN {TRUE} ELSE BOOLEAN)
    /\ price_map = <<>>
    /\ current_age = 0
    /\ retirement_year = 0
    /\ years_in_retirement = 0
    /\ loop_i = 0
    /\ total_btc_needed = 0
    /\ calculation_complete = TRUE
    /\ output = <<>>
    /\ vpc = "load"

\* of the rows of one year the first one gives the price
ToDictMutant(t) ==
    LET years == {t[k].year : k \in 1..Len(t)}
        first(y) == CHOOSE k \in 1..Len(t) :
                       /\ t[k].year = y
                       /\ \A j \in 1..Len(t) : t[j].year = y => k <= j
    IN [y \in years |-> t[first(y)].p5]

\* df.set_index('Year')['5th'].to_dict(): of the rows of one year the last
\* one gives the price
ToDict(t) ==
    LET years == {t[k].year : k \in 1..Len(t)}
        last(y) == CHOOSE k \in 1..Len(t) :
                      /\ t[k].year = y
                      /\ \A j \in 1..Len(t) : t[j].year = y => j <= k
    IN [y \in years |-> t[last(y)].p5]

\* read_csv succeeds (or the table is passed in); build price_map
LoadPrices ==
    /\ vpc = "load"
    /\ csv_exists
    /\ price_map' = ToDict(table)
    /\ current_age' = Ages[1]
    /\ retirement_year' = RetirementYears[1]
    /\ vpc' = "row"
    /\ UNCHANGED <<verifier, table, csv_exists, years_in_retirement, loop_i,
                   total_btc_needed, calculation_complete, output,
                   nonVerVars>>

\* except FileNotFoundError: print and return
FileNotFound ==
    /\ vpc = "load"
    /\ ~csv_exists
    /\ vpc' = "done"
    /\ UNCHANGED <<verifier, table, csv_exists, price_map, current_age,
                   retirement_year, years_in_retirement, loop_i, total_btc_needed,
                   calculation_complete, output, nonVerVars>>

YearsInRetirementMutant(age, year) == LIFESPAN - age

\* retirement_age = current_age + (retirement_year - CURRENT_YEAR)
\* years_in_retirement = LIFESPAN - retirement_age
YearsInRetirement(age, year) == LIFESPAN - (age + (year - CURRENT_YEAR))

\* the head of the inner loop's body, up to the for loop
BeginRow ==
    /\ vpc = "row"
    /\ LET n == YearsInRetirement(current_age, retirement_year)
       IN /\ years_in_retirement' = n
          /\ vpc' = IF n <= 0 THEN "emit" ELSE "loop"
    /\ total_btc_needed' = 0
    /\ calculation_complete' = TRUE
    /\ loop_i' = 0
    /\ UNCHANGED <<verifier, table, csv_exists, price_map, current_age,
                   retirement_year, output, nonVerVars>>

YearOfWithdrawalMutant(year, k) == year + k + 1

\* year_of_withdrawal = retirement_year + loop_i
YearOfWithdrawal(year, k) == year + k

RECURSIVE Growth(_)
\* (1 + INFLATION_RATE) ** k, in fixed point, by repeated squaring
Growth(k) ==
    IF k = 0 THEN AmountScale
    ELSE IF k % 2 = 1
         THEN (Growth(k - 1) * (100 + INFLATION_PERCENT)) \div 100
         ELSE LET h == Growth(k \div 2) IN (h * h) \div AmountScale

\* inflation_adjusted_withdrawal / predicted_price
Term(v, k, predicted_price) ==
    (InitialWithdrawal(v) * Growth(k)) \div predicted_price

\* one iteration of the for loop with the year in price_map
Withdraw ==
    /\ vpc = "loop"
    /\ loop_i < years_in_retirement
    /\ LET year_of_withdrawal == YearOfWithdrawal(retirement_year, loop_i)
       IN /\ year_of_withdrawal \in DOMAIN price_map
          /\ total_btc_needed' =
                total_btc_needed + Term(verifier, loop_i, price_map[year_of_withdrawal])
    /\ loop_i' = loop_i + 1
    /\ vpc' = IF loop_i + 1 = years_in_retirement THEN "emit" ELSE "loop"
    /\ UNCHANGED <<verifier, table, csv_exists, price_map, current_age,
                   retirement_year, years_in_retirement,
                   calculation_complete, output, nonVerVars>>

AfterMissingYearMutant == "done"

\* line 58: break leaves the for loop; the row is still reported
AfterMissingYear == "emit"

\* one iteration of the for loop with the year not in price_map
MissingYear ==
    /\ vpc = "loop"
    /\ loop_i < years_in_retirement
    /\ YearOfWithdrawal(retirement_year, loop_i) \notin DOMAIN price_map
    /\ calculation_complete' = FALSE
    /\ vpc' = AfterMissingYear
    /\ UNCHANGED <<verifier, table, csv_exists, price_map, current_age,
                   retirement_year, years_in_retirement, loop_i, total_btc_needed,
                   output, nonVerVars>>

Abs(x) == IF x < 0 THEN -x ELSE x

MatchMutant(v, image, total) == "N/A"

\* "Yes" if abs(btc_needed_image - total_btc_needed) < tolerance else "No"
Match(v, image, total) ==
    IF Abs((image * AmountScale) \div 100 - total) < Tolerance(v)
    THEN "Yes" ELSE "No"

\* the position after the row (age, year): the next year of the same age, the
\* first year of the next age, or the end of both loops
AfterRow(age, year) ==
    LET a == IndexOf(Ages, age)
        y == IndexOf(RetirementYears, year)
    IN IF y < Len(RetirementYears)
       THEN [pc |-> "row", age |-> age, year |-> RetirementYears[y + 1]]
       ELSE IF a < Len(Ages)
            THEN [pc |-> "row", age |-> Ages[a + 1], year |-> RetirementYears[1]]
            ELSE [pc |-> "done", age |-> age, year |-> year]

\* if calculation_complete: compare and report the total
ReportCompared ==
    /\ vpc = "emit"
    /\ calculation_complete
    /\ LET image == ImageData(verifier, current_age, retirement_year)
           next == AfterRow(current_age, retirement_year)
       IN /\ output' = Append(output,
                 [current_age |-> current_age,
                  retirement_year |-> retirement_year,
                  image |-> image,
                  calculated |-> <<total_btc_needed>>,
                  match |-> Match(verifier, image, total_btc_needed)])
          /\ vpc' = next.pc
          /\ current_age' = next.age
          /\ retirement_year' = next.year
    /\ UNCHANGED <<verifier, table, csv_exists, price_map,
                   years_in_retirement, loop_i, total_btc_needed,
                   calculation_complete, nonVerVars>>

\* else: report "(Data ends before 100)" and N/A
ReportIncomplete ==
    /\ vpc = "emit"
    /\ ~calculation_complete
    /\ LET image == ImageData(verifier, current_age, retirement_year)
           next == AfterRow(current_age, retirement_year)
       IN /\ output' = Append(output,
                 [current_age |-> current_age,
                  retirement_year |-> retirement_year,
                  image |-> image,
                  calculated |-> <<>>,
                  match |-> "N/A"])
          /\ vpc' = next.pc
          /\ current_age' = next.age
          /\ retirement_year' = next.year
    /\ UNCHANGED <<verifier, table, csv_exists, price_map,
                   years_in_retirement, loop_i, total_btc_needed,
                   calculation_complete, nonVerVars>>

NextVerify ==
    \/ LoadPrices \/ FileNotFound \/ BeginRow \/ Withdraw \/ MissingYear
    \/ ReportCompared \/ ReportIncomplete

SpecVerify == InitVerify /\ [][NextVerify]_vars

----------------------------------------------------------------------------
(* The forecast table's currency cells: written by the chart scripts as    *)
(* f'${p:,.2f}', read back by the verification with                        *)
(* replace({'\$': '', ',': ''}, regex=True).astype(float)                  *)

\* The prices formatted, in tenths of a cent: whole dollars around the
\* places where a thousands separator appears, and fractions of a dollar
\* around the rounding to the cent.
DollarSamples == {0, 9, 999, 1000, 12345, 999999, 1000000, 1234567}
MillSamples == {0, 4, 5, 6, 10, 994, 995, 999}
Prices == {dollars * 1000 + mills :
              dollars \in DollarSamples, mills \in MillSamples}

\* what the read yields: nothing yet, a number units / 10^decimals, or the
\* ValueError that astype(float) raises
NoCell == [kind |-> "none", units |-> 0, decimals |-> 0]
Float(u, d) == [kind |-> "float", units |-> u, decimals |-> d]
ValueError == [kind |-> "ValueError", units |-> 0, decimals |-> 0]

InitCell ==
    /\ verifier = "none" /\ table = <<>> /\ csv_exists = FALSE
    /\ price_map = <<>> /\ current_age = 0 /\ retirement_year = 0
    /\ years_in_retirement = 0 /\ loop_i = 0 /\ total_btc_needed = 0
    /\ calculation_complete = TRUE /\ output = <<>> /\ vpc = "idle"
    /\ start_timestamp = 0 /\ end_timestamp = 0 /\ all_data = <<>>
    /\ current_timestamp = 0 /\ new_data = <<>> /\ requests = 0
    /\ response = "none" /\ fpc = "idle" /\ ret = Pending
    /\ script = "none" /\ data = <<>> /\ df = <<>> /\ ppc = "idle"
    /\ fit_input = <<>> /\ files = {} /\ printed = "none"
    /\ extended_dates = <<>> /\ tick_text = <<>>
    /\ mpc = "idle" /\ fetch_printed = "none"
    /\ price \in Prices
    /\ cell = <<>>
    /\ parsed = NoCell
    /\ cpc = "format"

DigitChars == <<"0", "1", "2", "3", "4", "5", "6", "7", "8", "9">>

\* the character of a digit 0..9
DigitChar(n) == DigitChars[n + 1]

IsDigit(c) == \E n \in 0..9 : c = DigitChar(n)

\* the digit 0..9 of a character
DigitValue(c) == CHOOSE n \in 0..9 : c = DigitChar(n)

RECURSIVE Digits(_)
\* the decimal digits of n >= 0, most significant first
Digits(n) == IF n < 10 THEN <<DigitChar(n)>>
             ELSE Digits(n \div 10) \o <<DigitChar(n % 10)>>

RECURSIVE Grouped(_)
\* the ',' option: a comma before every group of three digits, from the right
Grouped(ds) ==
    IF Len(ds) <= 3 THEN ds
    ELSE Grouped(SubSeq(ds, 1, Len(ds) - 3)) \o <<",">>
             \o SubSeq(ds, Len(ds) - 2, Len(ds))

\* '.2f': the value in cents.  The float is rounded to the nearest cent; a
\* decimal tie is decided by the float's binary representation, either way.
RoundToCent(mills) ==
    LET q == mills \div 10
        r == mills % 10
    IN IF r < 5 THEN {q} ELSE IF r > 5 THEN {q + 1} ELSE {q, q + 1}

\* f'${p:,.2f}' for the value p of the given number of cents
FormatCurrency(cents) ==
    <<"$">> \o Grouped(Digits(cents \div 100)) \o <<".">>
        \o <<DigitChar((cents % 100) \div 10), DigitChar(cents % 10)>>

StripCurrencyMutant(s) == SelectSeq(s, LAMBDA c : c # "$")

\* replace({'\$': '', ',': ''}, regex=True): every "$" and "," is removed
StripCurrency(s) == SelectSeq(s, LAMBDA c : c \notin {"$", ","})

RECURSIVE NumberOf(_)
\* the number a sequence of digits denotes
NumberOf(ds) == IF ds = <<>> THEN 0
                ELSE NumberOf(SubSeq(ds, 1, Len(ds) - 1)) * 10
                         + DigitValue(ds[Len(ds)])

\* astype(float) on one string: digits with at most one decimal point read
\* as the number units / 10^decimals; any other character raises ValueError
AsFloat(s) ==
    LET points == {i \in 1..Len(s) : s[i] = "."}
        ds == SelectSeq(s, IsDigit)
    IN IF /\ \A i \in 1..Len(s) : IsDigit(s[i]) \/ s[i] = "."
          /\ Cardinality(points) <= 1
          /\ ds # <<>>
       THEN Float(NumberOf(ds),
                  IF points = {} THEN 0
                  ELSE Len(s) - (CHOOSE i \in points : TRUE))
       ELSE ValueError

\* the chart script formats one price into its cell
FormatCell ==
    /\ cpc = "format"
    /\ \E cents \in RoundToCent(price) : cell' = FormatCurrency(cents)
    /\ cpc' = "load"
    /\ UNCHANGED <<price, parsed, fetchVars, prepVars, verVars, mainVars>>

\* the verification reads the cell back
LoadCell ==
    /\ cpc = "load"
    /\ parsed' = AsFloat(StripCurrency(cell))
    /\ cpc' = "done"
    /\ UNCHANGED <<price, cell, fetchVars, prepVars, verVars, mainVars>>

NextCell == FormatCell \/ LoadCell

SpecCell == InitCell /\ [][NextCell]_vars

----------------------------------------------------------------------------
(* The __main__ blocks of the three chart scripts: fetch, then the chart   *)
(* function on what the fetch returned                                     *)

\* largest number of rows in the frame yf.download returns
MaxGoldRows == 2

InitMain ==
    /\ verifier = "none" /\ table = <<>> /\ csv_exists = FALSE
    /\ price_map = <<>> /\ current_age = 0 /\ retirement_year = 0
    /\ years_in_retirement = 0 /\ loop_i = 0 /\ total_btc_needed = 0
    /\ calculation_complete = TRUE /\ output = <<>> /\ vpc = "idle"
    /\ price = 0 /\ cell = <<>> /\ parsed = 0 /\ cpc = "idle"
    /\ script \in Scripts
    /\ mpc = "fetch"
    \* get_bitcoin_data(start_date, end_date) is entered; get_gold_data has
    \* no loop and is one step
    /\ start_timestamp \in (IF IsGold(script) THEN {0} ELSE 0..MaxTs)
    /\ end_timestamp \in (IF IsGold(script) THEN {0}
                          ELSE start_timestamp..MaxTs)
    /\ all_data = <<>>
    /\ current_timestamp = end_timestamp
    /\ new_data = <<>>
    /\ requests = 0
    /\ response = "none"
    /\ fpc = IF IsGold(script) THEN "gold" ELSE "loop"
    /\ ret = Pending
    /\ fetch_printed = "none"
    /\ data = <<>> /\ df = <<>> /\ ppc = "idle"
    /\ fit_input = <<>> /\ files = {} /\ printed = "none"
    /\ extended_dates = <<>> /\ tick_text = <<>>

\* get_gold_data: yf.download raises; print and return None
GoldDownloadRaises ==
    /\ fpc = "gold"
    /\ response' = "transport_error"
    /\ fetch_printed' = "Error fetching data from yfinance"
    /\ ret' = NoneResult
    /\ fpc' = "done"
    /\ UNCHANGED <<start_timestamp, end_timestamp, all_data,
                   current_timestamp, new_data, requests, nonFetchVars>>

\* get_gold_data: gold_data.empty; print and return None
GoldEmpty ==
    /\ fpc = "gold"
    /\ response' = "empty"
    /\ fetch_printed' = "No data fetched for the given date range."
    /\ ret' = NoneResult
    /\ fpc' = "done"
    /\ UNCHANGED <<start_timestamp, end_timestamp, all_data,
                   current_timestamp, new_data, requests, nonFetchVars>>

\* get_gold_data: return gold_data
GoldData ==
    /\ fpc = "gold"
    /\ \E rows \in SeqsUpTo(RawRows, MaxGoldRows) \ {<<>>} :
         /\ all_data' = rows
         /\ ret' = ListResult(rows)
    /\ response' = "page"
    /\ fpc' = "done"
    /\ UNCHANGED <<start_timestamp, end_timestamp, current_timestamp,
                   new_data, requests, fetch_printed, nonFetchVars>>

\* bool(price_data): None and [] are falsy
Truthy(r) == r.kind = "list" /\ r.data # <<>>

\* The time of a bar as the chart function reads it: start_timestamp is
\* midnight of the start date, and the fetch counts timestamps in days.
BarTime(ts) == (StartDay + (ts - start_timestamp)) * TicksPerDay

\* interactive_bitcoin_chart: if price_data: is false, the script ends
MainSkipsChart ==
    /\ mpc = "fetch" /\ fpc = "done"
    /\ script = "interactive_bitcoin_chart"
    /\ ~Truthy(ret)
    /\ mpc' = "exit"
    /\ UNCHANGED <<fetchVars, prepVars, verVars, cellVars>>

\* the chart function is called with what the fetch returned:
\* plot_bitcoin_price and create_interactive_gold_chart always,
\* create_interactive_bitcoin_chart under if price_data:
MainCallsChart ==
    /\ mpc = "fetch" /\ fpc = "done"
    /\ script = "interactive_bitcoin_chart" => Truthy(ret)
    /\ IF IsGold(script) THEN data' = ret.data
       ELSE \E close \in [0..MaxTs -> 0..MaxPrice] :
               data' = [i \in 1..Len(ret.data) |->
                           [time |-> BarTime(ret.data[i]),
                            close |-> close[ret.data[i]]]]
    /\ ppc' = "start"
    /\ mpc' = "chart"
    /\ UNCHANGED <<script, df, fit_input, files, printed, extended_dates,
                   tick_text, fetchVars, verVars, cellVars>>

NextMain ==
    \/ TransportError \/ ErrorStatus \/ EmptyPage \/ Page
    \/ GoldDownloadRaises \/ GoldEmpty \/ GoldData
    \/ MainSkipsChart \/ MainCallsChart
    \/ NoData \/ FilterStart \/ SortAndDropDuplicates \/ AssignDays
    \/ FilterFloor \/ NotEnoughData \/ FilterPrice \/ Fit \/ ExtendRaises
    \/ WriteOutputs

SpecMain == InitMain /\ [][NextMain]_vars

----------------------------------------------------------------------------
(* Specifications *)

NextFetch == TransportError \/ ErrorStatus \/ EmptyPage \/ Page

Spec == Init /\ [][NextFetch]_vars

----------------------------------------------------------------------------
(* Claims about get_bitcoin_data (checked under Spec) *)

Failed == {"transport_error", "error_status"}

\* C1 as stated: whenever get_bitcoin_data returns a list, the whole
\* returned sequence is ascending by timestamp.
C1_WholeSequenceAscending ==
    ret.kind = "list" => Ascending(ret.data)

\* the first position of the run that contains position i, for the cut set B
RunStart(B, i) ==
    LET before == {b + 1 : b \in {c \in B : c < i}}
    IN IF before = {} THEN 1
       ELSE CHOOSE x \in before : \A y \in before : y <= x

\* d is at most n ascending runs, each later run holding only timestamps that
\* are <= the first (oldest) timestamp of the run before it
NewestPageFirst(d, n) ==
    \E B \in SUBSET (1..(Len(d) - 1)) :
        /\ Cardinality(B) < n
        /\ \A i \in 1..(Len(d) - 1) : i \notin B => d[i] <= d[i + 1]
        /\ \A b \in B : \A j \in (b + 1)..Len(d) : d[j] <= d[RunStart(B, b)]

\* C1 (amended): a returned list is the pages in fetch order: each page is
\* ascending, the pages follow one another newest first, every timestamp of
\* a later page being <= the oldest timestamp of the page before it; there
\* are no more runs than requests, so a single-page result is ascending.
C1_AscendingPerPageNewestFirst ==
    ret.kind = "list" => NewestPageFirst(ret.data, requests)

\* two pages were accumulated and the returned list is not ascending
C1_Witness ==
    /\ ret.kind = "list"
    /\ requests = 2
    /\ Len(ret.data) > Len(new_data)
    /\ new_data # <<>>
    /\ ~Ascending(ret.data)

\* C2 as stated: a returned list always holds a point at or before the
\* requested start timestamp.
C2_AlwaysCoversStart ==
    ret.kind = "list" => \E i \in 1..Len(ret.data) : ret.data[i] <= start_timestamp

\* C2 (amended): a returned list holds a point at or before the requested
\* start timestamp unless the loop was ended by an empty page (the provider
\* is exhausted); then the list may stop short of the start, or be empty.
C2_CoversStartUnlessExhausted ==
    ret.kind = "list" =>
        \/ response = "empty"
        \/ \E i \in 1..Len(ret.data) : ret.data[i] <= start_timestamp

\* a fetch of two pages, the first short of the start, the second reaching it
C2_Witness ==
    /\ ret.kind = "list"
    /\ response = "page"
    /\ requests = 2
    /\ \A i \in 1..(Len(ret.data) - Len(new_data)) : ret.data[i] > start_timestamp
    /\ new_data[1] <= start_timestamp

\* C3: a transport error or a non-success status at any request makes
\* get_bitcoin_data return None (no accumulated page reaches the caller), and
\* once it has failed no further request is issued and the result stays None.
C3_AllOrNothingNoRetry ==
    [][/\ response' \in Failed => (ret' = NoneResult /\ fpc' = "done")
       /\ response \in Failed => (requests' = requests /\ ret' = ret)
       /\ fpc = "done" => requests' = requests]_vars

\* a failure after two accumulated pages
C3_Witness ==
    /\ response \in Failed
    /\ requests = 3
    /\ Len(all_data) >= 2
    /\ ret = NoneResult

----------------------------------------------------------------------------
(* Claims about the series preparation (checked under SpecPrep) *)

\* QuantReg(...).fit has been called on fit_input
FitCalled == ppc \in {"fitted", "raised", "raised extending"} \/ files # {}

\* C4: in every chart script the series handed to the regression has
\* days_since_start strictly increasing, with no duplicate value, whatever
\* the raw input (several samples on one calendar day included).
C4_DaysStrictlyIncreasing ==
    FitCalled =>
        \A i \in 1..(Len(fit_input) - 1) :
            fit_input[i].days_since_start < fit_input[i + 1].days_since_start

\* C5: every row handed to the regression has days_since_start at or above
\* the floor (365 in the Bitcoin scripts, positive in the gold script) and a
\* strictly positive price, whatever the raw input.
C5_FloorAndPositivePrice ==
    FitCalled =>
        \A i \in 1..Len(fit_input) :
            /\ AboveFloor(script, fit_input[i].days_since_start)
            /\ fit_input[i].days_since_start > 0
            /\ fit_input[i].close > 0

\* C6: when fewer than 2 rows remain after all preparation steps no
\* regression is fitted and no file is written; the fit is reached only
\* with 2 or more rows.
C6_FitNeedsTwoRows ==
    /\ FitCalled => Len(fit_input) >= 2
    /\ files # {} => Len(fit_input) >= 2

----------------------------------------------------------------------------
(* Claims about the retirement verification (checked under SpecVerify) *)

\* a row has just been reported: it is the last row of output
RowReported == vpc \in {"row", "done"} /\ output # <<>>

LastRow == output[Len(output)]

\* lifespan - (current_age + (retirement_year - current_year)), as the claims
\* define it
YearsOf(o) == 100 - (o.current_age + (o.retirement_year - 2025))

RECURSIVE SumOfTerms(_, _, _, _)
\* the sum over k in lo..hi of
\* initial_withdrawal * (1 + inflation)^k / price_at_year(year + k)
SumOfTerms(v, year, lo, hi) ==
    IF lo > hi THEN 0
    ELSE IF lo = hi THEN Term(v, lo, price_map[year + lo])
    ELSE LET mid == (lo + hi) \div 2
         IN SumOfTerms(v, year, lo, mid) + SumOfTerms(v, year, mid + 1, hi)

\* C7: a reported row with years_in_retirement > 0 is incomplete, with match
\* "N/A" and no total, when a year of [retirement_year, retirement_year +
\* years_in_retirement) is absent from the price map; otherwise its total is
\* the sum of the inflation-adjusted withdrawals divided by the year's price.
C7_IncompleteOrFullSum ==
    (RowReported /\ YearsOf(LastRow) > 0) =>
        LET o == LastRow
            required == {o.retirement_year + k : k \in 0..(YearsOf(o) - 1)}
        IN IF required \subseteq DOMAIN price_map
           THEN /\ o.calculated =
                     <<SumOfTerms(verifier, o.retirement_year, 0, YearsOf(o) - 1)>>
                /\ o.match \in {"Yes", "No"}
           ELSE /\ o.calculated = <<>>
                /\ o.match = "N/A"

\* the run reported an incomplete row whose first years are in the map and a
\* complete row with a positive total
C7_Witness ==
    /\ vpc = "done"
    /\ \E k \in 1..Len(output) :
         /\ YearsOf(output[k]) > 0
         /\ output[k].match = "N/A"
         /\ output[k].retirement_year \in DOMAIN price_map
    /\ \E k \in 1..Len(output) :
         /\ YearsOf(output[k]) > 1
         /\ output[k].calculated # <<>>
         /\ output[k].calculated[1] > 0

\* the price map has years on both sides of 2060..2099 and none of these
Lacks2060to2099 ==
    /\ vpc # "load"
    /\ 2059 \in DOMAIN price_map
    /\ \A y \in 2060..2099 : y \notin DOMAIN price_map

IsRow(o, age, year) == o.current_age = age /\ o.retirement_year = year

\* C8 as stated: against a price map lacking 2060..2099 the row
\* current_age=65, retirement_year=2060 is incomplete, with match "N/A".
C8_ScenarioBIncomplete ==
    Lacks2060to2099 =>
        \A k \in 1..Len(output) :
            IsRow(output[k], 65, 2060) =>
                output[k].match = "N/A" /\ output[k].calculated = <<>>

\* C8 (amended): against a price map lacking 2060..2099 the row
\* current_age=65, retirement_year=2060 has years_in_retirement = 0, so it is
\* complete with total 0.0 and match "Yes" (its reference is 0.00); the row
\* current_age=55, retirement_year=2060 (10 years in retirement) is the one
\* that is incomplete with match "N/A".
C8_ScenarioBZeroYears ==
    Lacks2060to2099 =>
        \A k \in 1..Len(output) :
            /\ IsRow(output[k], 65, 2060) =>
                   output[k].calculated = <<0>> /\ output[k].match = "Yes"
            /\ IsRow(output[k], 55, 2060) =>
                   output[k].calculated = <<>> /\ output[k].match = "N/A"

\* a finished run over a map lacking 2060..2099 that reported both rows
C8_Witness ==
    /\ vpc = "done"
    /\ Lacks2060to2099
    /\ \E k \in 1..Len(output) : IsRow(output[k], 65, 2060)
    /\ \E k \in 1..Len(output) : IsRow(output[k], 55, 2060)

\* C9: a row with years_in_retirement <= 0 has total exactly 0.0 whatever the
\* price map holds: the withdrawal loop (the only reader of the price map) is
\* not entered, the row is not incomplete, and 0.0 is compared with the
\* reference value.
C9_ZeroYearsZeroTotal ==
    /\ vpc = "loop" =>
           100 - (current_age + (retirement_year - 2025)) > 0
    /\ (RowReported /\ YearsOf(LastRow) <= 0) =>
           /\ LastRow.calculated = <<0>>
           /\ LastRow.match =
                 \* |image - 0.0| < 0.5 (0.25 in the 500k script), image
                 \* being in hundredths
                 (IF LastRow.image < (IF verifier = "verify_lifetime_retirement_500k"
                                      THEN 25 ELSE 50)
                  THEN "Yes" ELSE "No")

\* a run over an empty price map has reported a row with years <= 0
C9_Witness ==
    /\ RowReported
    /\ csv_exists
    /\ DOMAIN price_map = {}
    /\ YearsOf(LastRow) < 0
    /\ LastRow.calculated = <<0>>

\* the keys of both reference tables in table order: 8 ages x 11 years
ReferenceOrder ==
    [k \in 1..88 |-> <<Ages[((k - 1) \div 11) + 1],
                       RetirementYears[((k - 1) % 11) + 1]>>]

\* C10: a missing year does not end the run: the rows reported are always the
\* first entries of the reference table, in table order, one row each; the
\* run goes on until all 88 are reported, whatever the price map holds.
C10_EveryEntryOneRow ==
    (vpc # "load" /\ csv_exists) =>
        /\ Len(output) <= 88
        /\ \A k \in 1..Len(output) :
              <<output[k].current_age, output[k].retirement_year>> = ReferenceOrder[k]
        /\ vpc = "done" => Len(output) = 88
        /\ vpc # "done" =>
              /\ <<current_age, retirement_year>> = ReferenceOrder[Len(output) + 1]
              /\ ENABLED NextVerify

\* a finished run with an incomplete row followed by a compared row
C10_Witness ==
    /\ vpc = "done"
    /\ Len(output) = 88
    /\ \E k \in 1..87 :
          output[k].match = "N/A" /\ output[k + 1].match # "N/A"

----------------------------------------------------------------------------
(* Termination of the paging loop (checked under Spec) *)

\* a request was answered with a non-empty page and the loop goes on
PageAndContinue == requests' = requests + 1 /\ response' = "page" /\ fpc' = "loop"

----------------------------------------------------------------------------
(* The price map of a table on the builder's grid (checked under SpecVerify) *)

\* the table has been turned into price_map
PricesLoaded == csv_exists /\ vpc \notin {"idle", "load"}

\* the table's dates are the semiannual grid 2024-01-01 .. 2120-01-01, in
\* chronological order: 96 years of two rows and the closing January row
OnBuilderGrid ==
    /\ Len(table) = 193
    /\ \A k \in 1..Len(table) :
          /\ table[k].year = 2024 + ((k - 1) \div 2)
          /\ table[k].month = (IF k % 2 = 1 THEN 1 ELSE 7)

\* C14: for a table on the semiannual grid the price map's keys are exactly
\* 2024..2120, the price of each year 2024..2119 is that of its July row (the
\* later of its two rows) and the price of 2120 that of its January row.
C14_LastRowOfYearWins ==
    (PricesLoaded /\ OnBuilderGrid) =>
        /\ DOMAIN price_map = 2024..2120
        /\ \A k \in 1..Len(table) :
              (table[k].month = 7 \/ table[k].year = 2120) =>
                  price_map[table[k].year] = table[k].p5

\* a loaded grid table whose January and July prices differ
C14_Witness ==
    /\ PricesLoaded
    /\ OnBuilderGrid
    /\ table[1].p5 # table[2].p5
    /\ price_map[2024] = table[2].p5

\* C17: with the builder's table (every year 2024..2120 in the price map) no
\* row of either reference table is incomplete: the withdrawal years of a row
\* with years_in_retirement > 0 start at 2025 or later and end at
\* 2124 - current_age <= 2119.
C17_BuilderTableLeavesNoRowIncomplete ==
    (PricesLoaded /\ DOMAIN price_map = 2024..2120) =>
        /\ calculation_complete
        /\ \A k \in 1..Len(output) : output[k].match # "N/A"
        /\ vpc = "loop" =>
              /\ retirement_year >= 2025
              /\ retirement_year + years_in_retirement - 1 = 2124 - current_age
              /\ 2124 - current_age <= 2119
              /\ retirement_year + loop_i \in DOMAIN price_map

\* the 500k run over the builder's table has reported all 88 rows, the one
\* reaching 2119 among them
C17_Witness ==
    /\ PricesLoaded
    /\ DOMAIN price_map = 2024..2120
    /\ verifier = "verify_lifetime_retirement_500k"
    /\ vpc = "done"
    /\ Len(output) = 88
    /\ output[1].calculated # <<>>

----------------------------------------------------------------------------
(* The day coordinate of a prepared row (checked under SpecPrep)           *)

\* the rows of df carry their days_since_start
DaysAssigned == ppc \notin {"idle", "start", "sort", "days"}

\* the calendar day of a timestamp
DayOf(t) == t \div TicksPerDay

\* C15 as stated: in every chart script a prepared row's days_since_start is
\* the number of whole days from the start date to the row's date, plus 1.
C15_WholeDaysPlusOneEverywhere ==
    DaysAssigned =>
        \A i \in 1..Len(df) :
            df[i].days_since_start = (DayOf(df[i].time) - StartDay) + 1

\* C15 (amended): in the two Bitcoin scripts a prepared row's
\* days_since_start is the number of whole days from the start date to the
\* row's date plus 1; in the gold script it is that number of whole days
\* itself, with no 1 added.
C15_PlusOneInBitcoinOnly ==
    DaysAssigned =>
        \A i \in 1..Len(df) :
            df[i].days_since_start =
                (DayOf(df[i].time) - StartDay) + (IF IsGold(script) THEN 0 ELSE 1)

\* a gold run has prepared a row dated k > 0 days after the start date at a
\* time of day other than midnight, and its coordinate is k
C15_Witness ==
    /\ IsGold(script) /\ ppc = "fit"
    /\ \E i \in 1..Len(df) :
         /\ df[i].time % TicksPerDay # 0
         /\ DayOf(df[i].time) > StartDay
         /\ df[i].days_since_start = DayOf(df[i].time) - StartDay

----------------------------------------------------------------------------
(* The date shown for a day coordinate (checked under SpecPrep)            *)

\* a Bitcoin script has written its chart
BitcoinChartWritten == ~IsGold(script) /\ ppc = "returned" /\ files # {}

\* C16: in the Bitcoin scripts the calendar day shown for a day-coordinate d,
\* on the forecast's hover date and on a tick label, is the day whose
\* days_since_start is d under the preparation rule: the start date plus
\* d - 1 days.
C16_ShownDateIsDateOfCoordinate ==
    BitcoinChartWritten =>
        /\ \A d \in DOMAIN extended_dates :
               extended_dates[d] = StartDay + (d - 1)
        /\ \A val \in DOMAIN tick_text :
               tick_text[val] = StartDay + (val - 1)

\* C16, the equivalent form: an observed point and a forecast point with the
\* same coordinate show the same date.
C16_ObservedAndForecastAgree ==
    BitcoinChartWritten =>
        \A i \in 1..Len(df) :
            df[i].days_since_start \in DOMAIN extended_dates
                => extended_dates[df[i].days_since_start] = DayOf(df[i].time)

----------------------------------------------------------------------------
(* The round trip of a currency cell (checked under SpecCell)              *)

\* C11: formatting a non-negative price as "$" + thousands-separated value
\* with two decimals and parsing it back by stripping "$" and "," yields the
\* price rounded to the cent: the parse does not fail, the number read has
\* two decimals, is one of the roundings of the price to the cent, and is
\* within half a cent (5 tenths of a cent) of the price.
C11_CurrencyRoundTrip ==
    cpc = "done" =>
        /\ parsed.kind = "float"
        /\ parsed.decimals = 2
        /\ parsed.units \in RoundToCent(price)
        /\ parsed.units * 10 - price <= 5
        /\ price - parsed.units * 10 <= 5

\* a price of at least a million dollars that rounds up into the next dollar
\* has been written with two thousands separators and read back
C11_Witness ==
    /\ cpc = "done"
    /\ price = 1234567 * 1000 + 999
    /\ cell = <<"$", "1", ",", "2", "3", "4", ",", "5", "6", "8", ".", "0", "0">>
    /\ parsed = Float(123456800, 2)

----------------------------------------------------------------------------
(* A run whose fetch yields no data (checked under SpecMain)               *)

\* the fetch has returned None (error status, transport failure, empty
\* download) or an empty list (empty first page)
NoDataFetched == fpc = "done" /\ ~Truthy(ret)

\* the script has ended
RunEnded ==
    \/ mpc = "exit"
    \/ mpc = "chart" /\ ppc \in {"returned", "raised", "raised extending"}

\* C12: whenever the fetch yields no data, the script fits no regression and
\* writes no forecast table and no chart, and by the time it ends it has
\* printed a message; for each of the three scripts.
C12_NoDataAbortsWithMessage ==
    NoDataFetched =>
        /\ ~FitCalled
        /\ files = {}
        /\ RunEnded => (fetch_printed # "none" \/ printed # "none")

====
